---- MODULE Spec2Model ----
(***************************************************************************)
(* MetaKeyAI background daemon (src/src/python_scripts/metakeyai_daemon.py) *)
(* The spell loader (load_spell_module), startup discovery                 *)
(* (_discover_spells) and the /cast handler (cast_spell), with the         *)
(* process-global state they share: sys.modules, sys.stdin, sys.stdout,    *)
(* the temporary directory and the spell registry.                         *)
(*                                                                         *)
(* FastAPI runs a plain "def" endpoint in a worker thread of its pool, so   *)
(* several cast_spell calls can be in progress at once: Spec interleaves   *)
(* them statement group by statement group.  SpecSerial is the same        *)
(* program with one request handled at a time.                             *)
(***************************************************************************)
EXTENDS Naturals, Sequences, FiniteSets, TLC

(* ------------------------------ bounds ------------------------------- *)
\* worker threads of the endpoint pool that the model follows
NThreads == 2
\* cast requests accepted in one run
MaxCasts == 2

Threads == 1..NThreads

(* --------------------------- spell scripts --------------------------- *)
(* A script is its top-level statement list and the body of main; only    *)
(* the statements whose effect the daemon can observe are kept.           *)
St(op, arg) == [op |-> op, arg |-> arg]

\* src/src/python_scripts/spells/word_count.py
WordCountScript ==
  [top  |-> << St("metaId", "word_count"), St("def", "main") >>,
   main |-> << St("returnCount", "") >>]
\* def main(text): print("log"); return text + "!"
BangScript ==
  [top  |-> << St("metaId", "bang"), St("def", "main") >>,
   main |-> << St("print", "log"), St("returnBang", "") >>]
\* print(INPUT_TEXT)                        (the script-style spell of the spec)
EchoScript ==
  [top |-> << St("printInput", "") >>, main |-> << >>]
\* print("x")
HelloScript ==
  [top |-> << St("print", "x") >>, main |-> << >>]
\* raise RuntimeError("boom")
BoomScript ==
  [top |-> << St("raise", "boom") >>, main |-> << >>]
\* import sys; sys.exit(1)
ExitScript ==
  [top |-> << St("exit", "1") >>, main |-> << >>]
\* def main(text): raise ValueError("bad input")
MainRaiseScript ==
  [top  |-> << St("def", "main") >>,
   main |-> << St("raise", "bad input") >>]
\* META = 5
BadMetaScript ==
  [top |-> << St("metaBad", "") >>, main |-> << >>]
\* META = {"name": "No id"}
NoIdScript ==
  [top |-> << St("metaNoId", "") >>, main |-> << >>]

\* src/tmp.py lines 1-2: names dspy and sys without importing them
TranslateScript ==
  [top |-> << St("predict", "french -> english"), St("translateStdin", "") >>,
   main |-> << >>]

Scripts ==
  [translate |-> TranslateScript, wc |-> WordCountScript, bang |-> BangScript, echo |-> EchoScript,
   hello |-> HelloScript, boom |-> BoomScript, exit |-> ExitScript,
   mainraise |-> MainRaiseScript,
   badmeta |-> BadMetaScript, noid |-> NoIdScript,
   empty |-> [top |-> << >>, main |-> << >>]]

\* request texts ("input" of SpellCastRequest)
Inputs == {"", "hi"}
\* len(text.split()) on the request texts
NumWords(text) == IF text = "" THEN 0 ELSE 1

(* ------------------------------- paths ------------------------------- *)
(* A path string is [abs, dir, stem, ext]; a resolved path is             *)
(* [dir, stem, ext] with an absolute, normalised dir.                     *)
Cwd == << "app" >>
\* SPELLS_DIR = Path(__file__).parent / "spells"
SPELLS_DIR == << "app", "spells" >>
\* tempfile.gettempdir()
TempDir == << "tmp" >>

RECURSIVE Norm(_, _)
Norm(parts, acc) ==
  IF parts = << >> THEN acc
  ELSE IF Head(parts) = "." THEN Norm(Tail(parts), acc)
  ELSE IF Head(parts) = ".."
       THEN Norm(Tail(parts),
                 IF acc = << >> THEN acc ELSE SubSeq(acc, 1, Len(acc) - 1))
  ELSE Norm(Tail(parts), Append(acc, Head(parts)))

\* Path(script_file).resolve()
Resolve(ps) ==
  [dir  |-> Norm(IF ps.abs THEN ps.dir ELSE Cwd \o ps.dir, << >>),
   stem |-> ps.stem, ext |-> ps.ext]

\* str(path) of a resolved path, as a path string
PathStr(p) == [abs |-> TRUE, dir |-> p.dir, stem |-> p.stem, ext |-> p.ext]

\* hash(str(script_path)): distinct paths are given distinct hashes
Hash(p) == p
\* f"metakeyai_spell_{script_path.stem}_{abs(hash(str(script_path)))}"
ModuleName(p) == [stem |-> p.stem, hash |-> Hash(p)]

\* the i-th entry of sorted(SPELLS_DIR.glob("*.py"))
DirPath(i) == [dir |-> SPELLS_DIR, stem |-> "s" \o ToString(i), ext |-> "py"]
\* Path(tempfile.gettempdir()) / f"metakeyai_temp_spell_{uuid.uuid4()}.py"
TempPath(n) ==
  [dir |-> TempDir, stem |-> "metakeyai_temp_spell_" \o ToString(n), ext |-> "py"]

\* files outside the spells directory that requests may name
EchoPath  == [dir |-> << "app", "x" >>, stem |-> "echo", ext |-> "py"]
NotesPath == [dir |-> << "app", "x" >>, stem |-> "notes", ext |-> "txt"]
GonePath  == [dir |-> << "app", "x" >>, stem |-> "gone", ext |-> "py"]
TmpPath   == [dir |-> << "app", "x" >>, stem |-> "tmp", ext |-> "py"]

\* the contents of the spells directory at startup, in sorted order
Layouts ==
  { << >>, << "wc", "hello" >>, << "boom", "badmeta", "noid", "bang", "bang" >>,
    << "exit", "wc" >> }

\* a relative string that names the first spell through ".." and "."
AliasPath ==
  [abs |-> FALSE, dir |-> << "spells", "..", ".", "spells" >>,
   stem |-> "s1", ext |-> "py"]

\* the scriptFile strings of requests
ReqPaths ==
  { PathStr(DirPath(1)), AliasPath,
    PathStr(EchoPath), PathStr(NotesPath), PathStr(GonePath), PathStr(TmpPath) }

\* the inline scripts of requests
InlineScripts == { "hello", "bang", "exit", "mainraise" }

\* spell ids of requests
SpellIds == { "word_count" }

(* ---------------------------- interpreter ---------------------------- *)
(* Run executes a statement list.  bound says whether the names of        *)
(* runpy's init_globals (INPUT_TEXT, dspy, sys) are in the namespace or   *)
(* not (exec_module).  acc.dspy says whether the dspy package was         *)
(* imported, acc.stdin is the text sys.stdin has left to read.            *)
NoMeta == [kind |-> "none", id |-> ""]
Acc0 ==
  [out |-> "", main |-> FALSE, meta |-> NoMeta, exc |-> "none", msg |-> "",
   ret |-> "", returned |-> FALSE, dspy |-> FALSE, stdin |-> "", reads |-> 0]
\* the answer of the language model to a "french -> english" request
English(french) == "en:" \o french

RECURSIVE Run(_, _, _, _)
Run(stmts, bound, text, acc) ==
  IF stmts = << >> \/ acc.exc # "none" \/ acc.returned THEN acc
  ELSE LET s == Head(stmts)
           nxt ==
             CASE s.op = "print" -> [acc EXCEPT !.out = @ \o s.arg \o "\n"]
               [] s.op = "printInput" ->
                    IF bound THEN [acc EXCEPT !.out = @ \o text \o "\n"]
                    ELSE [acc EXCEPT !.exc = "Exception",
                                     !.msg = "name 'INPUT_TEXT' is not defined"]
               [] s.op = "predict" ->
                    \* tr = dspy.Predict(...): exec_module binds dspy only
                    \* when it was imported (lines 88-89), runpy binds it
                    \* to None when it was not (line 254)
                    IF acc.dspy THEN acc
                    ELSE [acc EXCEPT
                            !.exc = "Exception",
                            !.msg = IF bound
                                    THEN "'NoneType' object has no attribute 'Predict'"
                                    ELSE "name 'dspy' is not defined"]
               [] s.op = "translateStdin" ->
                    \* print(tr(french = sys.stdin.read()).english)
                    IF bound
                    THEN [acc EXCEPT !.out = @ \o English(acc.stdin) \o "\n",
                                     !.stdin = "", !.reads = @ + 1]
                    ELSE [acc EXCEPT !.exc = "Exception",
                                     !.msg = "name 'sys' is not defined"]
               [] s.op = "def" -> [acc EXCEPT !.main = TRUE]
               [] s.op = "metaId" ->
                    [acc EXCEPT !.meta = [kind |-> "dictId", id |-> s.arg]]
               [] s.op = "metaNoId" ->
                    [acc EXCEPT !.meta = [kind |-> "dict", id |-> ""]]
               [] s.op = "metaBad" ->
                    [acc EXCEPT !.meta = [kind |-> "bad", id |-> ""]]
               [] s.op = "raise" ->
                    [acc EXCEPT !.exc = "Exception", !.msg = s.arg]
               [] s.op = "exit" ->
                    [acc EXCEPT !.exc = "SystemExit", !.msg = s.arg]
               [] s.op = "returnCount" ->
                    \* word_count.main
                    [acc EXCEPT !.ret = ToString(NumWords(text)) \o " words, "
                                        \o ToString(Len(text)) \o " characters",
                                !.returned = TRUE]
               [] s.op = "returnBang" ->
                    [acc EXCEPT !.ret = text \o "!", !.returned = TRUE]
       IN Run(Tail(stmts), bound, text, nxt)

(* ------------------------------- state ------------------------------- *)
VARIABLES
  files,        \* the file system: resolved path -> script stored there
  listing,      \* sorted(SPELLS_DIR.glob("*.py")) as path strings
  startup,      \* lifespan: "scanning", "serving" or "crashed"
  dirIdx,       \* position of _discover_spells in listing
  registry,     \* SPELL_REGISTRY: id -> descriptor
  sys_modules,  \* sys.modules restricted to spell modules: name -> module object
  modules,      \* the module objects: object id -> attributes
  sys_stdin,    \* sys.stdin
  sys_stdout,   \* sys.stdout
  buffers,      \* the StringIO objects made at line 247: cast -> chunks written
  stdins,       \* the StringIO objects made at line 245: cast -> text left to read
  dspy,         \* whether "import dspy" succeeded (lines 47-69)
  th,           \* the locals of each worker thread's cast_spell call
  last,         \* the locals of the call that ended last, as it ended
  castsStarted, \* number of requests accepted so far
  execCount,    \* per path: executions of the script's top-level code
  loadReturned  \* per path: module objects load_spell_module has returned

vars ==
  << files, listing, startup, dirIdx, registry, sys_modules, modules,
     sys_stdin, sys_stdout, buffers, stdins, dspy, th, last, castsStarted,
     execCount, loadReturned >>

\* the process's own streams
Orig == [kind |-> "orig", id |-> 0]
StdinBuf(c) == [kind |-> "in", id |-> c]
StdoutBuf(c) == [kind |-> "out", id |-> c]
\* what the daemon's own standard input holds
DaemonStdin == "tty"
\* sys.stdin.read() at this moment
StdinText ==
  IF sys_stdin.kind = "in" THEN stdins[sys_stdin.id] ELSE DaemonStdin
\* what a script run at this moment finds around it
Env == [Acc0 EXCEPT !.dspy = dspy, !.stdin = StdinText]

\* a loader that refuses to execute a script when dspy was not imported
ExecModuleNeedsDspy(script) ==
  IF dspy THEN Run(Scripts[script].top, FALSE, "", Env)
  ELSE [Acc0 EXCEPT !.exc = "Exception", !.msg = "dspy is not installed"]
\* spec.loader.exec_module(module): the top-level code, in the module's
\* own namespace
ExecModule(script) == Run(Scripts[script].top, FALSE, "", Env)
\* runpy.run_path(script_to_run, init_globals=ns): the names of ns bound
RunPath(script, text) == Run(Scripts[script].top, TRUE, text, Env)
\* mod.main(input_text)
CallMain(script, text) == Run(Scripts[script].main, TRUE, text, Env)
\* the StringIO objects of line 245 after a script has run with result r
AfterRead(r) ==
  IF r.reads > 0 /\ sys_stdin.kind = "in"
  THEN [stdins EXCEPT ![sys_stdin.id] = r.stdin] ELSE stdins
\* the script read the daemon's own standard input
ReadReal(r) == r.reads > 0 /\ sys_stdin = Orig

Idle ==
  [pc |-> "idle", cast |-> 0, spellId |-> "", input |-> "",
   script |-> "", script_to_run |-> {}, temp_file_path |-> {},
   original_stdin |-> Orig, original_stdout |-> Orig, mod |-> 0,
   result |-> "", success |-> FALSE, error_msg |-> "",
   pending |-> "none", outcome |-> "none", detail |-> "",
   \* for the properties: the streams when the call began, what the spell
   \* raised, how often main and the fallback ran, and whether the spell
   \* read the daemon's own standard input
   stdin0 |-> Orig, stdout0 |-> Orig, spellExc |-> "none",
   mainCalls |-> 0, fallbackRuns |-> 0, readReal |-> FALSE]

\* the files that exist whatever the spells directory holds
FixedFiles ==
  (EchoPath :> "echo") @@ (NotesPath :> "empty") @@ (TmpPath :> "translate")

RECURSIVE DirFiles(_, _)
DirFiles(lay, i) ==
  IF i > Len(lay) THEN << >>
  ELSE (DirPath(i) :> lay[i]) @@ DirFiles(lay, i + 1)

Init ==
  /\ \E lay \in Layouts :
       /\ files = DirFiles(lay, 1) @@ FixedFiles
       /\ listing = [i \in 1..Len(lay) |-> PathStr(DirPath(i))]
  /\ startup = "scanning"
  /\ dirIdx = 1
  /\ registry = << >>
  /\ sys_modules = << >>
  /\ modules = << >>
  /\ sys_stdin = Orig
  /\ sys_stdout = Orig
  /\ buffers = << >>
  /\ stdins = << >>
  /\ dspy \in BOOLEAN
  /\ th = [t \in Threads |-> Idle]
  /\ last = Idle
  /\ castsStarted = 0
  /\ execCount = << >>
  /\ loadReturned = << >>

(* ------------------------------ helpers ------------------------------ *)
Inc(f, p) == IF p \in DOMAIN f THEN [f EXCEPT ![p] = @ + 1] ELSE f @@ (p :> 1)
Count(f, p) == IF p \in DOMAIN f THEN f[p] ELSE 0
Put(f, k, v) == IF k \in DOMAIN f THEN [f EXCEPT ![k] = v] ELSE f @@ (k :> v)
AddTo(f, p, x) ==
  IF p \in DOMAIN f THEN [f EXCEPT ![p] = @ \cup {x}] ELSE f @@ (p :> {x})

\* module_from_spec(spec): a new, empty module object
NewModule(script_path) ==
  [file |-> script_path, code |-> "empty", main |-> FALSE, meta |-> NoMeta,
   state |-> "new"]
\* the module object once exec_module has run (to the end, or to a raise)
Executed(m, script, r) ==
  [m EXCEPT !.code = script, !.main = r.main, !.meta = r.meta,
            !.state = IF r.exc = "none" THEN "done" ELSE "failed"]
\* the object id given to the next module object
NextUid == Cardinality(DOMAIN modules) + 1

\* text written through sys.stdout while it is `stream`, by cast c
Write(stream, c, text) ==
  IF stream.kind = "out" /\ text # ""
  THEN [buffers EXCEPT ![stream.id] = Append(@, [by |-> c, text |-> text])]
  ELSE buffers

RECURSIVE Concat(_)
\* StringIO.getvalue()
Concat(chunks) ==
  IF chunks = << >> THEN "" ELSE Head(chunks).text \o Concat(Tail(chunks))
GetValue(c) == Concat(buffers[c])

(* ------------------------- load_spell_module ------------------------- *)
(* The whole call, for a caller that runs alone (startup).  The result    *)
(* carries the exception raised, the module returned and the globals as   *)
(* the call leaves them.                                                  *)
LoadResult(exc, msg, mod, out, sm, ms, ec, lr) ==
  [exc |-> exc, msg |-> msg, mod |-> mod, out |-> out,
   sys_modules |-> sm, modules |-> ms, execCount |-> ec, loadReturned |-> lr]

\* a loader that never finds its module in sys.modules
InCacheNever(module_name) == FALSE
\* line 79: module_name in sys.modules
InCache(module_name) == module_name \in DOMAIN sys_modules

load_spell_module(script_file) ==
  LET script_path == Resolve(script_file)
      module_name == ModuleName(script_path)
  IN IF script_path \notin DOMAIN files
     THEN LoadResult("Exception", "spell script not found", 0, "",
                     sys_modules, modules, execCount, loadReturned)
     ELSE IF InCache(module_name)
     THEN LoadResult("none", "", sys_modules[module_name], "",
                     sys_modules, modules, execCount,
                     AddTo(loadReturned, script_path, sys_modules[module_name]))
     ELSE IF script_path.ext # "py"
     THEN LoadResult("Exception", "cannot import spell module", 0, "",
                     sys_modules, modules, execCount, loadReturned)
     ELSE LET uid == NextUid
              r == ExecModule(files[script_path])
          IN LoadResult(r.exc, r.msg, uid, r.out,
                        Put(sys_modules, module_name, uid),
                        modules @@ (uid :> Executed(NewModule(script_path), files[script_path], r)),
                        Inc(execCount, script_path),
                        IF r.exc = "none"
                        THEN AddTo(loadReturned, script_path, uid)
                        ELSE loadReturned)

(* -------------------------- _discover_spells ------------------------- *)
\* one iteration of the loop at line 141
DiscoverStep ==
  /\ startup = "scanning"
  /\ dirIdx <= Len(listing)
  /\ LET py_file == listing[dirIdx]
         l == load_spell_module(py_file)
     IN /\ sys_modules' = l.sys_modules
        /\ modules' = l.modules
        /\ execCount' = l.execCount
        /\ loadReturned' = l.loadReturned
        /\ buffers' = Write(sys_stdout, 0, l.out)
        /\ IF l.exc = "SystemExit"
           THEN \* not an Exception: leaves _discover_spells and lifespan
                /\ startup' = "crashed"
                /\ UNCHANGED << dirIdx, registry >>
           ELSE /\ dirIdx' = dirIdx + 1
                /\ startup' = startup
                /\ registry' =
                     IF l.exc = "none" /\ l.modules[l.mod].meta.kind = "dictId"
                     THEN Put(registry, l.modules[l.mod].meta.id,
                              [id |-> l.modules[l.mod].meta.id,
                               scriptFile |-> py_file])
                     ELSE registry
  /\ UNCHANGED << files, listing, dspy, stdins, sys_stdin, sys_stdout, th, last,
                  castsStarted >>

\* the loop is over (or SPELLS_DIR holds nothing): lifespan yields
DiscoverDone ==
  /\ startup = "scanning"
  /\ dirIdx > Len(listing)
  /\ startup' = "serving"
  /\ UNCHANGED << files, listing, dspy, stdins, dirIdx, registry, sys_modules, modules,
                  sys_stdin, sys_stdout, buffers, th, last, castsStarted,
                  execCount, loadReturned >>

(* ----------------------------- cast_spell ---------------------------- *)
Resting(t) == th[t].pc = "idle"
Path(t) == Resolve(CHOOSE ps \in th[t].script_to_run : TRUE)

\* lines 226-239: the request is read and an inline script is written out
CastBegin(t) ==
  /\ startup = "serving"
  /\ castsStarted < MaxCasts
  /\ Resting(t)
  /\ \E spellId \in SpellIds, scriptFile \in {{}} \cup {{ps} : ps \in ReqPaths},
        script \in {""} \cup InlineScripts, input \in Inputs, wfail \in BOOLEAN :
       LET c == castsStarted + 1
           temp == TempPath(c)
           base == [Idle EXCEPT !.cast = c, !.spellId = spellId,
                                !.input = input, !.script = script,
                                !.stdin0 = sys_stdin, !.stdout0 = sys_stdout]
       IN /\ castsStarted' = c
          /\ IF script # ""
             THEN IF wfail
                  THEN \* open() made the file, f.write() raised: line 280
                       /\ files' = files @@ (temp :> "empty")
                       /\ last' = [base EXCEPT !.outcome = "http500",
                                               !.detail = "write failed",
                                               !.temp_file_path = {temp}]
                       /\ th' = th
                  ELSE /\ files' = files @@ (temp :> script)
                       /\ last' = last
                       /\ th' = [th EXCEPT ![t] =
                            [base EXCEPT !.pc = "redirect",
                                         !.script_to_run = {PathStr(temp)},
                                         !.temp_file_path = {temp}]]
             ELSE /\ files' = files
                  /\ IF scriptFile = {}
                     THEN \* line 237: ValueError, re-raised as HTTP 500
                          /\ last' = [base EXCEPT !.outcome = "http500",
                                 !.detail = "No scriptFile or script content provided for spell "
                                           \o spellId]
                          /\ th' = th
                     ELSE /\ th' = [th EXCEPT ![t] =
                                 [base EXCEPT !.pc = "redirect",
                                              !.script_to_run = scriptFile]]
                          /\ last' = last
  /\ UNCHANGED << listing, dspy, stdins, startup, dirIdx, registry, sys_modules, modules,
                  sys_stdin, sys_stdout, buffers, execCount, loadReturned >>

\* lines 241-247
Redirect(t) ==
  /\ th[t].pc = "redirect"
  /\ th' = [th EXCEPT ![t].pc = "load",
                      ![t].original_stdin = sys_stdin,
                      ![t].original_stdout = sys_stdout]
  /\ sys_stdin' = IF th[t].input # "" THEN StdinBuf(th[t].cast) ELSE sys_stdin
  /\ sys_stdout' = StdoutBuf(th[t].cast)
  /\ buffers' = buffers @@ (th[t].cast :> << >>)
  /\ stdins' = IF th[t].input # "" THEN stdins @@ (th[t].cast :> th[t].input)
               ELSE stdins
  /\ UNCHANGED << files, last, listing, dspy, startup, dirIdx, registry, sys_modules,
                  modules, castsStarted, execCount, loadReturned >>

\* an inner try without its "except Exception": nothing is handled
RaisedUncaught(l, exc, msg) ==
  [l EXCEPT !.pc = "finally", !.pending = exc, !.detail = msg]
\* an exception leaves the inner try: "except Exception" (lines 259-263)
\* handles it unless it is a SystemExit, which stays pending
Raised(l, exc, msg) ==
  IF exc = "Exception"
  THEN [l EXCEPT !.pc = "finally", !.result = "", !.success = FALSE,
                 !.error_msg = msg]
  ELSE [l EXCEPT !.pc = "finally", !.pending = exc, !.detail = msg]

\* load_spell_module, lines 73-80
LoadCheck(t) ==
  /\ th[t].pc = "load"
  /\ LET script_path == Path(t)
         module_name == ModuleName(script_path)
     IN IF script_path \notin DOMAIN files
        THEN /\ th' = [th EXCEPT ![t] =
                         Raised(@, "Exception", "spell script not found")]
             /\ UNCHANGED loadReturned
        ELSE IF InCache(module_name)
        THEN /\ th' = [th EXCEPT ![t].pc = "dispatch",
                                 ![t].mod = sys_modules[module_name]]
             /\ loadReturned' =
                  AddTo(loadReturned, script_path, sys_modules[module_name])
        ELSE /\ th' = [th EXCEPT ![t].pc = "create"]
             /\ UNCHANGED loadReturned
  /\ UNCHANGED << files, last, listing, dspy, stdins, startup, dirIdx, registry, sys_modules,
                  modules, sys_stdin, sys_stdout, buffers, castsStarted,
                  execCount >>

\* load_spell_module, lines 82-91
LoadCreate(t) ==
  /\ th[t].pc = "create"
  /\ LET script_path == Path(t)
         uid == NextUid
     IN IF script_path.ext # "py"
        THEN /\ th' = [th EXCEPT ![t] =
                         Raised(@, "Exception", "cannot import spell module")]
             /\ UNCHANGED << sys_modules, modules >>
        ELSE /\ modules' = modules @@ (uid :> NewModule(script_path))
             /\ sys_modules' = Put(sys_modules, ModuleName(script_path), uid)
             /\ th' = [th EXCEPT ![t].pc = "exec", ![t].mod = uid]
  /\ UNCHANGED << files, last, listing, dspy, stdins, startup, dirIdx, registry, sys_stdin,
                  sys_stdout, buffers, castsStarted, execCount, loadReturned >>

\* load_spell_module, lines 92-93
LoadExec(t) ==
  /\ th[t].pc = "exec"
  /\ LET script_path == Path(t)
         r == ExecModule(files[script_path])
     IN /\ modules' = [modules EXCEPT ![th[t].mod] = Executed(@, files[script_path], r)]
        /\ execCount' = Inc(execCount, script_path)
        /\ buffers' = Write(sys_stdout, th[t].cast, r.out)
        /\ stdins' = AfterRead(r)
        /\ IF r.exc = "none"
           THEN /\ th' = [th EXCEPT ![t].pc = "dispatch",
                                    ![t].readReal = @ \/ ReadReal(r)]
                /\ loadReturned' = AddTo(loadReturned, script_path, th[t].mod)
           ELSE /\ th' = [th EXCEPT ![t] =
                            Raised([@ EXCEPT !.spellExc = r.exc,
                                             !.readReal = @ \/ ReadReal(r)],
                                   r.exc, r.msg)]
                /\ UNCHANGED loadReturned
  /\ UNCHANGED << files, last, listing, dspy, startup, dirIdx, registry, sys_modules,
                  sys_stdin, sys_stdout, castsStarted >>

\* a handler that reports the captured output whatever main returned
MainResultCaptured(r, c, bufs) == Concat(bufs[c])
\* line 252: result = mod.main(input_text)
MainResult(r, c, bufs) == r.ret
\* line 256: result = captured_stdout.getvalue()
FallbackResult(r, c, bufs) == Concat(bufs[c])

\* lines 251-258
Dispatch(t) ==
  /\ th[t].pc = "dispatch"
  /\ LET c == th[t].cast
         viaMain == modules[th[t].mod].main
         r == IF viaMain
              THEN CallMain(modules[th[t].mod].code, th[t].input)
              ELSE RunPath(files[Path(t)], th[t].input)
         bufs == Write(sys_stdout, c, r.out)
         l == IF viaMain
              THEN [th[t] EXCEPT !.mainCalls = @ + 1,
                                 !.readReal = @ \/ ReadReal(r)]
              ELSE [th[t] EXCEPT !.fallbackRuns = @ + 1,
                                 !.readReal = @ \/ ReadReal(r)]
     IN /\ buffers' = bufs
        /\ stdins' = AfterRead(r)
        /\ execCount' = IF viaMain THEN execCount ELSE Inc(execCount, Path(t))
        /\ th' = [th EXCEPT ![t] =
             IF r.exc = "none"
             THEN [l EXCEPT !.pc = "finally", !.success = TRUE,
                            !.result = IF viaMain THEN MainResult(r, c, bufs)
                                       ELSE FallbackResult(r, c, bufs)]
             ELSE Raised([l EXCEPT !.spellExc = r.exc], r.exc, r.msg)]
  /\ UNCHANGED << files, last, listing, dspy, startup, dirIdx, registry, sys_modules,
                  modules, sys_stdin, sys_stdout, castsStarted, loadReturned >>

\* a finally block that leaves sys.stdout as it is
StdoutLeft(t) == sys_stdout
\* line 265 and line 266: what the streams are set back to
RestoredStdin(t) == th[t].original_stdin
RestoredStdout(t) == th[t].original_stdout

\* the StringIO objects still referenced once thread t's call is over
LiveBuffers(t) ==
  { c \in DOMAIN buffers :
      \/ RestoredStdout(t) = StdoutBuf(c)
      \/ \E u \in Threads \ {t} :
           /\ ~Resting(u)
           /\ th[u].cast = c \/ th[u].original_stdout = StdoutBuf(c) }

\* the StringIO objects of line 245 still referenced once t's call is over
LiveStdins(t) ==
  { c \in DOMAIN stdins :
      \/ RestoredStdin(t) = StdinBuf(c)
      \/ \E u \in Threads \ {t} :
           /\ ~Resting(u)
           /\ th[u].cast = c \/ th[u].original_stdin = StdinBuf(c) }

\* lines 264-280: the finally block, then the return or the exception
Finally(t) ==
  /\ th[t].pc = "finally"
  /\ sys_stdin' = RestoredStdin(t)
  /\ sys_stdout' = RestoredStdout(t)
  /\ \E rmfail \in BOOLEAN :
       IF th[t].temp_file_path # {} /\ rmfail
       THEN \* os.remove raised: line 280 turns it into HTTP 500
            /\ files' = files
            /\ last' = [th[t] EXCEPT !.pc = "idle", !.outcome = "http500",
                                     !.detail = "remove failed"]
       ELSE /\ files' = [p \in DOMAIN files \ th[t].temp_file_path |-> files[p]]
            /\ last' = [th[t] EXCEPT !.pc = "idle",
                                     !.outcome = IF th[t].pending = "none"
                                                 THEN "returned" ELSE "raised"]
  /\ th' = [th EXCEPT ![t] = Idle]
  /\ buffers' = [c \in LiveBuffers(t) |-> buffers[c]]
  /\ stdins' = [c \in LiveStdins(t) |-> stdins[c]]
  /\ UNCHANGED << listing, dspy, startup, dirIdx, registry, sys_modules, modules,
                  castsStarted, execCount, loadReturned >>

(* --------------------------- specifications -------------------------- *)
Step(t) ==
  \/ Redirect(t)
  \/ LoadCheck(t)
  \/ LoadCreate(t)
  \/ LoadExec(t)
  \/ Dispatch(t)
  \/ Finally(t)

\* requests handled by the thread pool, in any interleaving
Next ==
  \/ DiscoverStep
  \/ DiscoverDone
  \/ \E t \in Threads : CastBegin(t)
  \/ \E t \in Threads : Step(t)

Spec == Init /\ [][Next]_vars

\* one request at a time: a request is taken only when none is in progress
SerialCastBegin(t) ==
  /\ \A u \in Threads : Resting(u)
  /\ CastBegin(t)

NextSerial ==
  \/ DiscoverStep
  \/ DiscoverDone
  \/ \E t \in Threads : SerialCastBegin(t)
  \/ \E t \in Threads : Step(t)

SpecSerial == Init /\ [][NextSerial]_vars

(* ============================ properties ============================= *)
\* the script a cast runs: the inline one, or the one its scriptFile names
LastPath == Resolve(CHOOSE ps \in last.script_to_run : TRUE)
LastScript ==
  IF last.script # "" THEN last.script
  ELSE IF last.script_to_run # {} /\ LastPath \in DOMAIN files
       THEN files[LastPath] ELSE "empty"
\* some call has ended
Done == last.cast # 0
\* exec_module calls made on module objects of path p
LoadExecs(p) ==
  Cardinality({u \in DOMAIN modules :
                 modules[u].file = p /\ modules[u].state # "new"})

(* C1: with requests handled one at a time, every load of a path for      *)
(* which load_spell_module has returned a module returns that one module  *)
(* object, whatever string named the path; exec_module has run once for   *)
(* it; and an entry of sys.modules is never removed or replaced.          *)
C1_OneUnit ==
  \A p \in DOMAIN loadReturned :
    Cardinality(loadReturned[p]) = 1 /\ LoadExecs(p) = 1
C1_EntryKept ==
  \A n \in DOMAIN sys_modules :
    n \in DOMAIN sys_modules' /\ sys_modules'[n] = sys_modules[n]
C1_LoadCached == [] C1_OneUnit /\ [][C1_EntryKept]_vars
\* a request naming the first spell through the alias got the module that
\* discovery loaded from its plain path
C1_Witness ==
  \E t \in Threads :
    /\ th[t].pc = "dispatch"
    /\ th[t].script_to_run = {AliasPath}
    /\ DirPath(1) \in DOMAIN loadReturned
    /\ loadReturned[DirPath(1)] = {th[t].mod}
    /\ registry # << >>

(* C2: the top-level code of a script runs at most once per process, over *)
(* any sequence of discover and cast operations, the fallback included.   *)
C2_TopLevelOnce ==
  \A p \in DOMAIN execCount : execCount[p] <= 1

\* a call ends in this step
Finishes == last'.cast # last.cast

(* C3: with requests handled one at a time, when cast_spell ends, by a     *)
(* return or by an exception, sys.stdin and sys.stdout are the streams    *)
(* they were when the call began.                                         *)
C3_Restores ==
  Finishes => sys_stdin' = last'.stdin0 /\ sys_stdout' = last'.stdout0
C3_StreamsRestored == [][C3_Restores]_vars
\* a call that redirected both streams and was left by a SystemExit is
\* over, and the streams are the ones it began with
C3_Witness ==
  /\ Done
  /\ last.outcome = "raised"
  /\ last.input # ""
  /\ last.original_stdout = last.stdout0
  /\ sys_stdin = last.stdin0
  /\ sys_stdout = last.stdout0

\* the call that ended last got as far as running its script: the request
\* named one, the file could be written and removed, and the path is a
\* Python file that exists
Ran ==
  /\ Done
  /\ last.script_to_run # {}
  /\ last.detail \notin {"write failed", "remove failed"}
  /\ last.script # "" \/ (LastPath \in DOMAIN files /\ LastPath.ext = "py")

(* C4: the temporary file of a request with inline script content does    *)
(* not exist once cast_spell is over: after a successful run, after the   *)
(* spell raised, and after the write of the content failed.               *)
C4_TempFileRemoved ==
  (Done /\ last.temp_file_path # {} /\ last.detail # "remove failed")
    => last.temp_file_path \cap DOMAIN files = {}

(* C5: whatever a spell raises, from main or from its top-level code       *)
(* (SystemExit included), cast_spell returns a failure result: success    *)
(* false, a non-empty error, output "".  Nothing is raised to the caller.  *)
C5_SpellErrorsCaught ==
  (Done /\ last.spellExc # "none" /\ last.detail # "remove failed")
    => /\ last.outcome = "returned"
       /\ ~last.success
       /\ last.error_msg # ""
       /\ last.result = ""

\* the threads between the redirect of the streams and their restore
InCritical ==
  { t \in Threads : th[t].pc \in {"load", "create", "exec", "dispatch", "finally"} }

(* C6: at most one request is between its redirect of sys.stdin and        *)
(* sys.stdout and its restore, and a capture buffer holds only what its   *)
(* own request's spell wrote.                                             *)
C6_Serialized ==
  /\ Cardinality(InCritical) <= 1
  /\ \A c \in DOMAIN buffers :
       \A i \in 1..Len(buffers[c]) : buffers[c][i].by = c

(* C7: a cast of a script that defines no main succeeds, and its output    *)
(* is what one run of the script body prints with INPUT_TEXT bound to the *)
(* request's input.                                                       *)
C7_FallbackOutput ==
  Ran =>
    LET r == RunPath(LastScript, last.input)
    IN (r.exc = "none" /\ ~r.main)
         => /\ last.outcome = "returned"
            /\ last.success
            /\ last.result = r.out

\* the script's top-level code completes and defines main
HasMain(script) == ExecModule(script).exc = "none" /\ ExecModule(script).main

(* C8: with requests handled one at a time, a cast of a script that        *)
(* defines main calls main once with the request's input and never runs   *)
(* the fallback; when main returns, the cast succeeds and its output is   *)
(* main's return value.                                                   *)
C8_MainOutput ==
  (Ran /\ HasMain(LastScript)) =>
    LET r == CallMain(LastScript, last.input)
    IN /\ last.mainCalls = 1
       /\ last.fallbackRuns = 0
       /\ r.exc = "none"
            => /\ last.outcome = "returned"
               /\ last.success
               /\ last.result = r.ret
\* main printed "log" and returned "hi!": the output is "hi!"
C8_Witness ==
  /\ Ran
  /\ LastScript = "bang"
  /\ last.input = "hi"
  /\ last.mainCalls = 1
  /\ last.success
  /\ last.result = "hi!"

(* C9: a load whose top-level code raised leaves no entry in sys.modules,  *)
(* so every module that load_spell_module returns is one whose top-level  *)
(* code has completed.                                                    *)
C9_NoPartialUnit ==
  \A p \in DOMAIN loadReturned :
    \A u \in loadReturned[p] : modules[u].state = "done"

\* what exec_module makes of the i-th script of the spells directory
Listed(i) == ExecModule(files[Resolve(listing[i])])
\* the entries that load and declare an id
WellFormed ==
  { i \in 1..Len(listing) :
      Listed(i).exc = "none" /\ Listed(i).meta.kind = "dictId" }

(* C10: _discover_spells never raises, and when it is over the registry    *)
(* holds one descriptor for each id declared by a script of the directory *)
(* that loads and has a META with an id, and nothing else; a script that  *)
(* fails to load or has no such META is skipped.                          *)
C10_Discover ==
  /\ startup # "crashed"
  /\ startup = "serving" =>
       /\ DOMAIN registry = { Listed(i).meta.id : i \in WellFormed }
       /\ \A id \in DOMAIN registry :
            /\ registry[id].id = id
            /\ \E i \in WellFormed :
                 Listed(i).meta.id = id /\ registry[id].scriptFile = listing[i]

\* the request of the call that ended last named a scriptFile that does
\* not exist, and carried no inline script
LastNotFound ==
  /\ Done
  /\ last.script = ""
  /\ last.script_to_run # {}
  /\ LastPath \notin DOMAIN files
\* the request of the call that ended last carried neither field
LastNeither == Done /\ last.script = "" /\ last.script_to_run = {}

(* C11 as stated: a request whose scriptFile does not exist and a request  *)
(* with neither scriptFile nor script both get a failure result           *)
(* (success false, a message); nothing is raised.                         *)
C11_ReturnedNotRaised ==
  (LastNotFound \/ LastNeither)
    => /\ last.outcome = "returned"
       /\ ~last.success
       /\ last.error_msg # ""

(* C11 amended: a request whose scriptFile does not exist gets a failure   *)
(* result (success false, a message, output ""); a request with neither   *)
(* scriptFile nor script gets no result: cast_spell raises HTTP 500 whose *)
(* detail is the message naming the spell.                                *)
C11_FailureOrHttp500 ==
  /\ LastNotFound
       => /\ last.outcome = "returned"
          /\ ~last.success
          /\ last.error_msg = "spell script not found"
          /\ last.result = ""
  /\ LastNeither
       => /\ last.outcome = "http500"
          /\ last.detail =
               "No scriptFile or script content provided for spell " \o last.spellId
\* a request for the missing file has been answered with a failure result
C11_Witness ==
  /\ LastNotFound
  /\ last.script_to_run = {PathStr(GonePath)}
  /\ last.outcome = "returned"
  /\ ~last.success

(* C12: a request that names a registered spell id and carries neither     *)
(* scriptFile nor script runs the script the registry records for the id. *)
C12_RegistryLookup ==
  (LastNeither /\ last.spellId \in DOMAIN registry)
    => /\ last.outcome = "returned"
       /\ last.mainCalls + last.fallbackRuns >= 1

(* C15: whenever no invocation is in progress, after any interleaving of   *)
(* concurrently handled casts, sys.stdout and sys.stdin are the original  *)
(* process streams, not a capture buffer left behind by a request.        *)
C15_OriginalStreams ==
  (\A t \in Threads : Resting(t)) => sys_stdin = Orig /\ sys_stdout = Orig

\* the module objects made for path p (line 86)
Units(p) == { u \in DOMAIN modules : modules[u].file = p }

(* C16: when loads of one resolved path overlap, one module object is made *)
(* for the path and its top-level code is executed once, and a caller     *)
(* that got a module from the loader never holds one whose top-level code *)
(* another thread is still executing.                                     *)
C16_LoadedOnce ==
  /\ \A u \in DOMAIN modules : Cardinality(Units(modules[u].file)) = 1
  /\ \A t \in Threads :
       th[t].pc = "dispatch" => modules[th[t].mod].state # "new"

(* C17: after a cast with inline script content has returned, sys.modules  *)
(* holds no entry keyed by the path of its temporary file.                *)
C17_NoTempEntry ==
  (Done /\ last.outcome = "returned") =>
    \A p \in last.temp_file_path : ModuleName(p) \notin DOMAIN sys_modules

\* the script names dspy
UsesDspy(script) ==
  \E i \in 1..Len(Scripts[script].top) : Scripts[script].top[i].op = "predict"
\* exec_module of the script in a process where dspy was imported
WithDspy(script) ==
  Run(Scripts[script].top, FALSE, "", [Env EXCEPT !.dspy = TRUE])
\* the entries of the directory that would load and declare an id if dspy
\* had been imported
WellFormedWithDspy ==
  { i \in 1..Len(listing) :
      LET r == WithDspy(files[Resolve(listing[i])])
      IN r.exc = "none" /\ r.meta.kind = "dictId" }

(* C13: when dspy was not imported, (a) every executed module of a script  *)
(* that does not name dspy has the attributes and the load outcome it     *)
(* would have with dspy, (b) once discovery is over the registry (what    *)
(* list_spells returns) holds the ids it would hold with dspy, and (c) a  *)
(* cast of a script that names dspy returns a failure result with a       *)
(* message; nothing is raised.                                            *)
C13_WithoutDspy ==
  ~dspy =>
    /\ \A u \in DOMAIN modules :
         (modules[u].state # "new" /\ ~UsesDspy(modules[u].code)) =>
           LET r == WithDspy(modules[u].code)
           IN /\ modules[u].main = r.main
              /\ modules[u].meta = r.meta
              /\ (modules[u].state = "done") = (r.exc = "none")
    /\ (startup = "serving"
          /\ \A i \in 1..Len(listing) : ~UsesDspy(files[Resolve(listing[i])]))
         => DOMAIN registry =
              { WithDspy(files[Resolve(listing[i])]).meta.id :
                  i \in WellFormedWithDspy }
    /\ (Ran /\ UsesDspy(LastScript))
         => /\ last.outcome = "returned"
            /\ ~last.success
            /\ last.result = ""
            /\ last.error_msg \in
                 { "name 'dspy' is not defined",
                   "'NoneType' object has no attribute 'Predict'" }
\* without dspy, discovery registered word_count and the second cast of
\* src/tmp.py, run by the fallback, came back as a failure result
C13_Witness ==
  /\ ~dspy
  /\ "word_count" \in DOMAIN registry
  /\ Ran
  /\ LastScript = "translate"
  /\ last.fallbackRuns = 1
  /\ last.outcome = "returned"
  /\ ~last.success

(* C14: with requests handled one at a time, from the redirect to the      *)
(* restore sys.stdin is the buffer made from the request's input, also    *)
(* for an empty input, and no spell reads the daemon's own standard       *)
(* input.                                                                 *)
C14_StdinIsInput ==
  /\ \A t \in InCritical : sys_stdin = StdinBuf(th[t].cast)
  /\ \A t \in Threads : ~th[t].readReal
  /\ ~last.readReal

====
